---- MODULE Spec2Model ----
(***************************************************************************)
(* Model of generate_metronome_sounds.py: generate_sine_wave (the sample   *)
(* loop, the fade envelope, the 16-bit quantization and struct.pack),      *)
(* create_wav_file (the wave writer inside a `with` block) and main (five  *)
(* calls in a fixed order followed by a summary).                          *)
(*                                                                         *)
(* Real numbers are held as fractions <<numerator, denominator>>           *)
(* (duration, amplitude, envelope).  math.sin is evaluated in fixed point  *)
(* with SCALE steps per unit (error below 2/SCALE), and the two products   *)
(* of line 30 and line 41 are truncated to that grid.  Durations are       *)
(* chosen so that sample_rate * duration is computed exactly by the        *)
(* floating point product of line 24.                                      *)
(***************************************************************************)
EXTENDS Integers, Sequences, FiniteSets, TLC

VARIABLES pc, k, frequency, duration, sample_rate, amplitude,
          num_samples, i, samples, envelope, branch, audio_data,
          wav_file, handles, disk, stdout, exception, exit_code

vars == <<pc, k, frequency, duration, sample_rate, amplitude,
          num_samples, i, samples, envelope, branch, audio_data,
          wav_file, handles, disk, stdout, exception, exit_code>>

callVars == <<frequency, duration, sample_rate, amplitude, num_samples>>
loopVars == <<i, samples, envelope, branch>>
fileVars == <<wav_file, handles, disk>>

-----------------------------------------------------------------------------
(* Bounds of the input sets of the stand-alone synthesizer specification.  *)

MaxRateK == 8
MaxDurNum == 6
MaxFreqK == 3

-----------------------------------------------------------------------------
(* Arithmetic helpers.                                                     *)

Abs(x) == IF x < 0 THEN -x ELSE x

Min(a, b) == IF a < b THEN a ELSE b

\* int(x) of Python for x = n / d with d > 0: truncation toward zero.
Trunc(n, d) == IF n >= 0 THEN n \div d ELSE -((-n) \div d)

\* Grid of the fixed-point evaluation of math.sin.
SCALE == 2 ^ 14

\* pi / 2 on that grid (355 / 113 approximates pi).
HALF_PI == (SCALE * 355 + 113) \div 226

\* math.sin(2 * math.pi * p / q) * SCALE for 0 <= p < q: quadrant
\* reduction, then the Taylor polynomial up to x^9 in Horner form.
Sin(p, q) ==
    LET quad == (4 * p) \div q
        r    == (4 * p) % q
        rr   == IF quad % 2 = 1 THEN q - r ELSE r
        th   == (rr * HALF_PI) \div q
        z    == (th * th) \div SCALE
        u4   == SCALE - z \div 72
        u3   == SCALE - ((z * u4) \div SCALE) \div 42
        u2   == SCALE - ((z * u3) \div SCALE) \div 20
        u1   == SCALE - ((z * u2) \div SCALE) \div 6
        s    == Min((th * u1) \div SCALE, SCALE)
    IN  IF quad >= 2 THEN -s ELSE s

-----------------------------------------------------------------------------
(* generate_sine_wave, line by line.                                       *)

\* round() of Python for n / d with n >= 0 and d > 0: half to even
Round(n, d) ==
    LET q == n \div d
        r == n % d
    IN  IF 2 * r < d THEN q
        ELSE IF 2 * r > d THEN q + 1
        ELSE IF q % 2 = 0 THEN q ELSE q + 1

\* variant: the sample count rounded instead of truncated
NumSamplesRounded(rate, dur) == Round(rate * dur[1], dur[2])

\* line 24: num_samples = int(sample_rate * duration)
NumSamples(rate, dur) == Trunc(rate * dur[1], dur[2])

\* line 34: fade_samples = int(sample_rate * 0.005)
FadeSamples(rate) == Trunc(rate * 5, 1000)

\* variant: the time of a sample taken one step late, t = (i + 1) / rate
SampleLate(freq, idx, rate, amp) ==
    Trunc(amp[1] * Sin((freq * (idx + 1)) % rate, rate), amp[2])

\* lines 29-30: sample = amplitude * sin(2 pi frequency t), t = i / rate
Sample(freq, idx, rate, amp) ==
    Trunc(amp[1] * Sin((freq * idx) % rate, rate), amp[2])

\* variant: the fade-out test comes first
EnvelopeBranchOutFirst(idx, n, fade) ==
    IF idx > n - fade THEN "fade_out"
    ELSE IF idx < fade THEN "fade_in"
    ELSE "none"

\* variant: the fade-out test is not strict
EnvelopeBranchGeq(idx, n, fade) ==
    IF idx < fade THEN "fade_in"
    ELSE IF idx >= n - fade THEN "fade_out"
    ELSE "none"

\* variant: the fade-in test is not strict
EnvelopeBranchLeq(idx, n, fade) ==
    IF idx <= fade THEN "fade_in"
    ELSE IF idx > n - fade THEN "fade_out"
    ELSE "none"

\* lines 36-39: which branch of the if / elif assigns the envelope
EnvelopeBranch(idx, n, fade) ==
    IF idx < fade THEN "fade_in"
    ELSE IF idx > n - fade THEN "fade_out"
    ELSE "none"

\* variant: no fade-in ramp
EnvelopeNoFadeIn(idx, n, fade) ==
    IF EnvelopeBranch(idx, n, fade) = "fade_out" THEN <<n - idx, fade>> ELSE <<1, 1>>

\* lines 33-39: the envelope as a fraction; 1.0 is <<1, 1>>
Envelope(idx, n, fade) ==
    CASE EnvelopeBranch(idx, n, fade) = "fade_in"  -> <<idx, fade>>
      [] EnvelopeBranch(idx, n, fade) = "fade_out" -> <<n - idx, fade>>
      [] OTHER -> <<1, 1>>

\* line 41: sample *= envelope
ApplyEnvelope(sample, env) == Trunc(sample * env[1], env[2])

\* variant: quantization by 32768
PcmValue32768(sample) == Trunc(sample * 32768, SCALE)

\* line 44: pcm_value = int(sample * 32767)
PcmValue(sample) == Trunc(sample * 32767, SCALE)

\* struct.pack('<h', v) accepts exactly the signed 16-bit range
InShortRange(v) == v >= -32768 /\ v <= 32767

\* line 45: struct.pack('<h', v): two bytes, little endian, two's complement
Pack(v) == LET u == (v + 65536) % 65536 IN <<u % 256, u \div 256>>

\* struct.unpack('<h', b)[0]
Unpack(b) == LET u == b[1] + 256 * b[2] IN IF u >= 32768 THEN u - 65536 ELSE u

\* line 47: b''.join(samples)
Join(ss) == [j \in 1..(2 * Len(ss)) |-> ss[(j + 1) \div 2][((j - 1) % 2) + 1]]

-----------------------------------------------------------------------------
(* The wave writer and the files.                                          *)

NoHandle == [open |-> FALSE, nchannels |-> 0, sampwidth |-> 0,
             framerate |-> 0, datalength |-> 0, datawritten |-> 0]

NoFile == [exists |-> FALSE, nchannels |-> 0, sampwidth |-> 0,
           framerate |-> 0, datalength |-> 0, databytes |-> 0]

\* lines 79-112: the five calls of main, in program order
ToneTable ==
    <<[name |-> "click.wav",     frequency |-> 1000, duration |-> <<5, 100>>],
      [name |-> "beep.wav",      frequency |-> 880,  duration |-> <<8, 100>>],
      [name |-> "drum.wav",      frequency |-> 150,  duration |-> <<12, 100>>],
      [name |-> "snap.wav",      frequency |-> 2000, duration |-> <<4, 100>>],
      [name |-> "woodblock.wav", frequency |-> 600,  duration |-> <<6, 100>>]>>

\* lines 11 and 49: sample_rate=44100, amplitude=0.5
DefaultSampleRate == 44100
DefaultAmplitude == <<1, 2>>

\* Wave_write._ensure_header_written: frames in the data handed over
NFrames(data, w) == Len(data) \div (w.sampwidth * w.nchannels)

\* Wave_write._write_header: the data length the header declares
HeaderDataLength(data, w) == NFrames(data, w) * w.nchannels * w.sampwidth

\* variant: one byte per sample
WaveParamsByte(w, rate) ==
    [w EXCEPT !.nchannels = 1, !.sampwidth = 1, !.framerate = rate]

\* lines 65-67: setnchannels(1), setsampwidth(2), setframerate(sample_rate)
WaveParams(w, rate) ==
    [w EXCEPT !.nchannels = 1, !.sampwidth = 2, !.framerate = rate]

\* what a failed writeframes may leave of the payload on disk
PartialWrites(data) == {0, Len(data) \div 2}

\* variant: the handle stays open
ReleaseNothing(hs, h) == hs

\* leaving the `with` block: the handle is released
Release(hs, h) == hs \ {h}

\* variant: the exception is swallowed
ExitStatusZero(exc) == 0

\* interpreter exit status: 0 after main returns, 1 on an uncaught exception
ExitStatus(exc) == IF exc = "none" THEN 0 ELSE 1

-----------------------------------------------------------------------------
(* Initial states.                                                         *)

Rates == {100 * r : r \in 0..MaxRateK}
Durations == {<<n, 256>> : n \in 1..MaxDurNum}
Frequencies == {25 * f : f \in 1..MaxFreqK}
Amplitudes == {<<0, 1>>, <<1, 2>>, <<1, 1>>, <<3, 2>>}

InitCommon ==
    /\ i = 0
    /\ samples = <<>>
    /\ envelope = <<1, 1>>
    /\ branch = "none"
    /\ audio_data = <<>>
    /\ wav_file = NoHandle
    /\ handles = {}
    /\ disk = [n \in 1..Len(ToneTable) |-> NoFile]
    /\ exception = "none"
    /\ exit_code = -1

\* main is about to run
Init ==
    /\ pc = "main"
    /\ k = 0
    /\ frequency = 0
    /\ duration = <<0, 1>>
    /\ sample_rate = 0
    /\ amplitude = <<0, 1>>
    /\ num_samples = 0
    /\ stdout = <<>>
    /\ InitCommon

\* a direct call generate_sine_wave(frequency, duration, sample_rate, amplitude)
SynthInit ==
    /\ pc = "loop"
    /\ k = 0
    /\ frequency \in Frequencies
    /\ duration \in Durations
    /\ sample_rate \in Rates
    /\ amplitude \in Amplitudes
    /\ num_samples = NumSamples(sample_rate, duration)
    /\ stdout = <<>>
    /\ InitCommon

-----------------------------------------------------------------------------
(* generate_sine_wave.                                                     *)

\* lines 27-45: one iteration of the loop
SineStep ==
    /\ pc = "loop"
    /\ i < num_samples
    /\ LET fade == FadeSamples(sample_rate)
           br   == EnvelopeBranch(i, num_samples, fade)
           env  == Envelope(i, num_samples, fade)
           raw  == Sample(frequency, i, sample_rate, amplitude)
       IN  IF sample_rate = 0 \/ (br # "none" /\ fade = 0)
           THEN /\ exception' = "ZeroDivisionError"
                /\ pc' = "raised"
                /\ UNCHANGED loopVars
           ELSE LET pcm_value == PcmValue(ApplyEnvelope(raw, env))
                IN  /\ envelope' = env
                    /\ branch' = br
                    /\ IF InShortRange(pcm_value)
                       THEN /\ samples' = Append(samples, Pack(pcm_value))
                            /\ i' = i + 1
                            /\ UNCHANGED <<pc, exception>>
                       ELSE /\ exception' = "struct.error"
                            /\ pc' = "raised"
                            /\ UNCHANGED <<samples, i>>
    /\ UNCHANGED <<k, callVars, audio_data, fileVars, stdout, exit_code>>

\* line 47 (and line 60 when called from create_wav_file)
SineReturn ==
    /\ pc = "loop"
    /\ i = num_samples
    /\ audio_data' = Join(samples)
    /\ pc' = IF k = 0 THEN "returned" ELSE "open"
    /\ UNCHANGED <<k, callVars, loopVars, fileVars, stdout, exception, exit_code>>

SynthNext == SineStep \/ SineReturn

SynthSpec == SynthInit /\ [][SynthNext]_vars

-----------------------------------------------------------------------------
(* create_wav_file and main.                                               *)

\* lines 76-112 and 59-60, 24-25: main reaches its next create_wav_file
\* call, which calls generate_sine_wave with the default rate and amplitude
CreateWavFile ==
    /\ pc = "main"
    /\ k < Len(ToneTable)
    /\ k' = k + 1
    /\ frequency' = ToneTable[k + 1].frequency
    /\ duration' = ToneTable[k + 1].duration
    /\ sample_rate' = DefaultSampleRate
    /\ amplitude' = DefaultAmplitude
    /\ num_samples' = NumSamples(DefaultSampleRate, ToneTable[k + 1].duration)
    /\ i' = 0
    /\ samples' = <<>>
    /\ audio_data' = <<>>
    /\ stdout' = IF k = 0 THEN Append(stdout, <<"Generating", "">>) ELSE stdout
    /\ pc' = "loop"
    /\ UNCHANGED <<envelope, branch, fileVars, exception, exit_code>>

\* line 63: wave.open(filename, 'wb') creates or truncates the file, or
\* raises OSError without opening anything
WaveOpen ==
    /\ pc = "open"
    /\ \E ok \in BOOLEAN :
          IF ok
          THEN /\ handles' = handles \cup {k}
               /\ wav_file' = [NoHandle EXCEPT !.open = TRUE]
               /\ disk' = [disk EXCEPT ![k] = [NoFile EXCEPT !.exists = TRUE]]
               /\ pc' = "write"
               /\ UNCHANGED exception
          ELSE /\ exception' = "OSError"
               /\ pc' = "raised"
               /\ UNCHANGED fileVars
    /\ UNCHANGED <<k, callVars, loopVars, audio_data, stdout, exit_code>>

\* lines 65-68: the parameters, then writeframes: the header with the
\* declared length, then the payload; a failing write raises OSError and
\* leaves _datawritten as it was
WriteFrames ==
    /\ pc = "write"
    /\ LET w == WaveParams(wav_file, sample_rate)
           declared == HeaderDataLength(audio_data, w)
           header == [disk[k] EXCEPT !.nchannels = w.nchannels,
                                     !.sampwidth = w.sampwidth,
                                     !.framerate = w.framerate,
                                     !.datalength = declared]
       IN  \E ok \in BOOLEAN :
             IF ok
             THEN /\ wav_file' = [w EXCEPT !.datalength = declared,
                                           !.datawritten = Len(audio_data)]
                  /\ disk' = [disk EXCEPT ![k] =
                                [header EXCEPT !.databytes = Len(audio_data)]]
                  /\ UNCHANGED exception
             ELSE /\ \E n \in PartialWrites(audio_data) :
                        disk' = [disk EXCEPT ![k] = [header EXCEPT !.databytes = n]]
                  /\ wav_file' = [w EXCEPT !.datalength = declared]
                  /\ exception' = "OSError"
    /\ pc' = "exit_with"
    /\ UNCHANGED <<k, callVars, loopVars, audio_data, handles, stdout, exit_code>>

\* line 63, Wave_write.__exit__: close() patches the header when the
\* declared length differs from what was written and closes the file in a
\* finally clause; a pending exception is then re-raised
WithExit ==
    /\ pc = "exit_with"
    /\ disk' = [disk EXCEPT ![k].datalength =
                   IF wav_file.datalength # wav_file.datawritten
                   THEN wav_file.datawritten ELSE @]
    /\ handles' = Release(handles, k)
    /\ wav_file' = NoHandle
    /\ pc' = IF exception = "none" THEN "print" ELSE "raised"
    /\ UNCHANGED <<k, callVars, loopVars, audio_data, stdout, exception, exit_code>>

\* line 70: print, then create_wav_file returns and its locals are dropped
PrintCreated ==
    /\ pc = "print"
    /\ stdout' = Append(stdout, <<"Created", ToneTable[k].name>>)
    /\ samples' = <<>>
    /\ audio_data' = <<>>
    /\ pc' = "main"
    /\ UNCHANGED <<k, callVars, i, envelope, branch, fileVars, exception, exit_code>>

\* lines 114-121: the summary, after the fifth call has returned
Summary ==
    /\ pc = "main"
    /\ k = Len(ToneTable)
    /\ stdout' = Append(stdout, <<"All created", "">>)
    /\ pc' = "done"
    /\ UNCHANGED <<k, callVars, loopVars, audio_data, fileVars, exception, exit_code>>

\* line 124: main returns and the interpreter exits
Exit ==
    /\ pc = "done"
    /\ exit_code' = ExitStatus(exception)
    /\ pc' = "exited"
    /\ UNCHANGED <<k, callVars, loopVars, audio_data, fileVars, stdout, exception>>

\* lines 60-124: nothing catches the exception; it leaves create_wav_file
\* and main and ends the interpreter
Propagate ==
    /\ pc = "raised"
    /\ exit_code' = ExitStatus(exception)
    /\ samples' = <<>>
    /\ audio_data' = <<>>
    /\ pc' = "exited"
    /\ UNCHANGED <<k, callVars, i, envelope, branch, fileVars, stdout, exception>>

Next ==
    \/ CreateWavFile
    \/ SineStep
    \/ SineReturn
    \/ WaveOpen
    \/ WriteFrames
    \/ WithExit
    \/ PrintCreated
    \/ Summary
    \/ Exit
    \/ Propagate

Spec == Init /\ [][Next]_vars

-----------------------------------------------------------------------------
(* Properties of generate_sine_wave, checked under SynthSpec.              *)

\* frequency > 0, duration > 0, sample_rate a positive integer
ValidTone == frequency > 0 /\ duration[1] > 0 /\ sample_rate > 0

\* amplitude in [0, 1]
ValidAmplitude == amplitude[1] >= 0 /\ amplitude[1] <= amplitude[2]

\* the call has returned its buffer
Returned == pc = "returned"

\* the loop has run for index i - 1 without raising
Emitted == exception = "none" /\ i >= 1

fade_samples == FadeSamples(sample_rate)

\* C1 as stated: for valid inputs the returned buffer holds exactly
\* round(sample_rate * duration) samples of 2 bytes each, also when the
\* fractional part of the product is 0.5 or more.
C1_RoundedLength ==
    (Returned /\ ValidTone) =>
        /\ Len(samples) = Round(sample_rate * duration[1], duration[2])
        /\ Len(audio_data) = 2 * Round(sample_rate * duration[1], duration[2])

\* C1 amended: for valid inputs the returned buffer holds exactly
\* int(sample_rate * duration) samples of 2 bytes each, the product
\* truncated: n <= sample_rate * duration < n + 1.
C1_TruncatedLength ==
    (Returned /\ ValidTone) =>
        /\ Len(samples) * duration[2] <= sample_rate * duration[1]
        /\ sample_rate * duration[1] < (Len(samples) + 1) * duration[2]
        /\ Len(audio_data) = 2 * Len(samples)

\* a returned buffer whose product has a fractional part of 0.5 or more
C1_Witness ==
    /\ Returned /\ ValidTone
    /\ 2 * ((sample_rate * duration[1]) % duration[2]) >= duration[2]
    /\ Len(samples) >= 1

\* C2: for amplitude in [0, 1] and a valid tone, amplitude * sine * envelope
\* stays within [-1, 1] at every index, struct.pack never raises, and every
\* stored sample is the computed pcm value, within [-32768, 32767].
C2_SamplesInRange ==
    (ValidTone /\ ValidAmplitude) =>
        /\ exception # "struct.error"
        /\ i >= 1 =>
             LET s == ApplyEnvelope(
                        Sample(frequency, i - 1, sample_rate, amplitude), envelope)
             IN  /\ Abs(s) <= SCALE
                 /\ InShortRange(PcmValue(s))
                 /\ Len(samples) = i
                 /\ Unpack(samples[i]) = PcmValue(s)

\* full amplitude at a peak of the sine outside the fades: the sample
\* reaches the largest value
C2_Witness ==
    /\ ValidTone /\ amplitude = <<1, 1>> /\ i >= 1
    /\ Unpack(samples[i]) = 32767

\* C7 as stated: for every valid parameter set with at least one sample,
\* rates below 200 Hz included, the first sample has envelope factor 0 and
\* value 0.
C7_FirstEnvelopeZero ==
    (ValidTone /\ ValidAmplitude /\ Emitted) =>
        /\ Unpack(samples[1]) = 0
        /\ i = 1 => (envelope[1] = 0 /\ envelope[2] > 0)

\* C7 amended: the first sample has value 0; its envelope factor is 0 when
\* fade_samples >= 1 (sample rate of 200 Hz or more) and 1.0 when
\* fade_samples = 0.
C7_FirstSampleZero ==
    (ValidTone /\ ValidAmplitude /\ Emitted) =>
        /\ Unpack(samples[1]) = 0
        /\ i = 1 => IF sample_rate >= 200
                    THEN envelope[1] = 0 /\ envelope[2] > 0
                    ELSE envelope = <<1, 1>>

\* the first sample of a tone below 200 Hz sample rate
C7_Witness ==
    /\ ValidTone /\ ValidAmplitude /\ Emitted
    /\ i = 1 /\ sample_rate < 200 /\ amplitude[1] > 0
    /\ samples[1] = <<0, 0>>

\* C8 as stated: when num_samples < 2 * fade_samples no index gets the
\* fade-out multiplier.
C8_NoFadeOutBelowTwoFades ==
    (ValidTone /\ Emitted /\ num_samples < 2 * fade_samples) =>
        branch # "fade_out"

\* C8 amended: when num_samples <= fade_samples (a tone of at most 5 ms)
\* every index gets the fade-in ramp and none the fade-out multiplier.
C8_NoFadeOutWithinOneFade ==
    (ValidTone /\ Emitted /\ num_samples <= fade_samples) =>
        /\ branch = "fade_in"
        /\ envelope = <<i - 1, fade_samples>>

\* the last index of a tone shorter than the fade
C8_Witness ==
    /\ ValidTone /\ Emitted
    /\ num_samples < fade_samples /\ i = num_samples /\ i >= 2

\* the envelope of the claim's three cases, at index j
PiecewiseEnvelope(j) ==
    IF j < fade_samples THEN <<j, fade_samples>>
    ELSE IF j >= fade_samples /\ j > num_samples - fade_samples
         THEN <<num_samples - j, fade_samples>>
         ELSE <<1, 1>>

\* the boundary index is outside the fade-out
BoundaryExcluded ==
    (i - 1 = num_samples - fade_samples /\ i - 1 >= fade_samples) =>
        (envelope = <<1, 1>> /\ branch = "none")

\* C9 as stated: the envelope is i / fade_samples below fade_samples,
\* (num_samples - i) / fade_samples for i >= fade_samples above
\* num_samples - fade_samples, 1.0 otherwise; the boundary index has 1.0;
\* the last sample has envelope 1 / fade_samples.
C9_PiecewiseLastIsOneOverFade ==
    (ValidTone /\ Emitted) =>
        /\ envelope = PiecewiseEnvelope(i - 1)
        /\ BoundaryExcluded
        /\ i = num_samples =>
             (fade_samples > 0 /\ envelope[1] * fade_samples = envelope[2])

\* C9 amended: the same three cases and boundary; the last sample has
\* envelope 1 / fade_samples whenever num_samples > fade_samples >= 1.
C9_Piecewise ==
    (ValidTone /\ Emitted) =>
        /\ envelope = PiecewiseEnvelope(i - 1)
        /\ BoundaryExcluded
        /\ (i = num_samples /\ num_samples > fade_samples /\ fade_samples >= 1) =>
             envelope[1] * fade_samples = envelope[2]

\* the boundary index of a tone with a fade of several samples
C9_Witness ==
    /\ ValidTone /\ Emitted
    /\ fade_samples >= 2
    /\ i - 1 = num_samples - fade_samples /\ i - 1 >= fade_samples
    /\ envelope = <<1, 1>>

\* C10: for every sample rate >= 0 and every num_samples >= 0 the envelope
\* never divides by zero and lies in [0, 1]; with fade_samples = 0 neither
\* branch is taken.
C10_EnvelopeSafe ==
    /\ exception # "ZeroDivisionError"
    /\ i >= 1 =>
         /\ envelope[2] > 0
         /\ 0 <= envelope[1] /\ envelope[1] <= envelope[2]
         /\ fade_samples = 0 => branch = "none"
         /\ branch # "none" => envelope[2] = fade_samples

\* a whole tone synthesized with fade_samples = 0
C10_Witness ==
    /\ Returned /\ sample_rate > 0 /\ fade_samples = 0
    /\ num_samples >= 2 /\ branch = "none"

-----------------------------------------------------------------------------
(* Properties of create_wav_file and main, checked under Spec.             *)

Printed(line) == \E n \in 1..Len(stdout) : stdout[n] = line

\* create_wav_file has reported file j
Created(j) == Printed(<<"Created", ToneTable[j].name>>)

\* file j holds a complete container for tone j
Complete(j) ==
    /\ disk[j].exists
    /\ disk[j].databytes = 2 * NumSamples(DefaultSampleRate, ToneTable[j].duration)
    /\ disk[j].datalength = disk[j].databytes

\* C3: every file written successfully declares 1 channel, 2 bytes per
\* sample, the given sample rate and a data length equal to the payload's
\* byte length, num_samples * 2 * 1; click.wav has 2205 samples and declares
\* 4410 bytes.
C3_HeaderMatchesPayload ==
    /\ \A j \in 1..Len(ToneTable) :
         Created(j) =>
           /\ disk[j].nchannels = 1
           /\ disk[j].sampwidth = 2
           /\ disk[j].framerate = DefaultSampleRate
           /\ disk[j].datalength = disk[j].databytes
           /\ disk[j].databytes =
                2 * 1 * NumSamples(DefaultSampleRate, ToneTable[j].duration)
    /\ pc = "print" =>
         /\ disk[k].databytes = Len(audio_data)
         /\ Len(audio_data) = num_samples * 2 * 1
         /\ Len(samples) = num_samples
    /\ Created(1) => disk[1].datalength = 4410
    /\ (k = 1 /\ pc = "print") => num_samples = 2205

\* click.wav has been written and reported
C3_Witness ==
    /\ Created(1) /\ disk[1].datalength = 4410 /\ disk[1].databytes = 4410

\* the call generate_sine_wave(880, 0.08, 44100, 0.5)
BeepCall ==
    /\ pc \in {"loop", "open"}
    /\ frequency = 880 /\ duration = <<8, 100>>
    /\ sample_rate = 44100 /\ amplitude = <<1, 2>>

\* the sample at index j without the envelope, quantized
Unenveloped(j) == PcmValue(Sample(frequency, j, sample_rate, amplitude))

\* C4 as stated: the call yields 3528 samples and for every i in [0, 220)
\* the magnitude of sample[i] is strictly less than the magnitude of the
\* unenveloped sine at i.
C4_FadeInStrictFromZero ==
    BeepCall =>
        /\ num_samples = 3528
        /\ pc = "open" => Len(audio_data) = 2 * 3528
        /\ (pc = "loop" /\ i >= 1 /\ i <= 220) =>
             Abs(Unpack(samples[i])) < Abs(Unenveloped(i - 1))

\* C4 amended: the call yields 3528 samples; for every i in [1, 220) the
\* magnitude of sample[i] is strictly less than the magnitude of the
\* unenveloped sine at i, and at i = 0 both are 0.
C4_FadeInStrictFromOne ==
    BeepCall =>
        /\ num_samples = 3528
        /\ fade_samples = 220
        /\ pc = "open" => Len(audio_data) = 2 * 3528
        /\ (pc = "loop" /\ i >= 2 /\ i <= 220) =>
             Abs(Unpack(samples[i])) < Abs(Unenveloped(i - 1))
        /\ (pc = "loop" /\ i = 1) =>
             (Unpack(samples[1]) = 0 /\ Unenveloped(0) = 0)

\* the fade-in of the beep has just ended
C4_Witness ==
    /\ BeepCall /\ pc = "loop" /\ i = 220
    /\ Abs(Unpack(samples[220])) > 0

\* C5: the generations run one after another in table order; at most one
\* file handle is open, only between wave.open and the end of the `with`
\* block, never during synthesis, and it is closed before the next
\* generation starts, after a successful and after a failed write.
C5_SequentialOneHandle ==
    /\ Cardinality(handles) <= 1
    /\ handles # {} => (pc \in {"write", "exit_with"} /\ handles = {k})
    /\ pc \in {"write", "exit_with"} => handles = {k}
    /\ wav_file.open <=> handles # {}
    /\ k >= 1 =>
         /\ frequency = ToneTable[k].frequency
         /\ duration = ToneTable[k].duration
    /\ \A j \in 1..Len(ToneTable) :
         /\ j < k => (Created(j) /\ Complete(j))
         /\ j > k => (~Created(j) /\ ~disk[j].exists)
    /\ \A m, n \in 1..Len(stdout) :
         \A a, b \in 1..Len(ToneTable) :
           (stdout[m] = <<"Created", ToneTable[a].name>>
              /\ stdout[n] = <<"Created", ToneTable[b].name>> /\ m < n) => a < b

\* a write has failed after wave.open succeeded and the handle is closed again
C5_Witness ==
    /\ pc = "raised" /\ exception = "OSError"
    /\ k >= 1 /\ disk[k].exists /\ handles = {}
    /\ wav_file = NoHandle

\* C6: an I/O error on the k-th file is neither swallowed nor retried: the
\* generation of that file stops, the exit status is non-zero, no later
\* file is generated and the summary is not printed; without an error all
\* five files are written and the exit status is 0.
C6_ErrorIsFatal ==
    /\ exception # "none" =>
         /\ exception = "OSError"
         /\ pc \in {"exit_with", "raised", "exited"}
         /\ ~Created(k)
         /\ ~Complete(k)
         /\ \A j \in 1..Len(ToneTable) : j > k => ~disk[j].exists
         /\ ~Printed(<<"All created", "">>)
    /\ pc = "exited" =>
         IF exception = "none"
         THEN /\ exit_code = 0
              /\ k = Len(ToneTable)
              /\ \A j \in 1..Len(ToneTable) : Created(j) /\ Complete(j)
              /\ Printed(<<"All created", "">>)
         ELSE exit_code # 0
    /\ pc # "exited" => exit_code = -1

\* the run has ended on an I/O error before the last file
C6_Witness ==
    /\ pc = "exited" /\ exception = "OSError" /\ exit_code = 1
    /\ k >= 1 /\ k < Len(ToneTable) /\ ~disk[k + 1].exists

====
